---------------------------- MODULE Spec2Model ----------------------------
(***************************************************************************)
(* A model of convert_to_coreml.py: the conversion script of ml-depth-pro. *)
(*                                                                         *)
(*   Spec        one invocation of the script (lines 188-191):             *)
(*               create_scaled_model, load_and_show_example,               *)
(*               save_coreml_packages, with every exception uncaught.      *)
(*   SpecSave    save_mlpackage called twice with one module and one list  *)
(*               of shapes.                                                *)
(*   SpecDepth   Depth.forward on inputs drawn from bounded sets.          *)
(*   SpecRun     DepthProRun.forward on inputs drawn from bounded sets.    *)
(*                                                                         *)
(* Tensors are modelled by their shapes (sequences of naturals) and, where *)
(* a value matters, by one sample value.                                   *)
(***************************************************************************)
EXTENDS Integers, Naturals, Sequences, FiniteSets, TLC

VARIABLES
    \* ---- the script (lines 107-191)
    pc,             \* position of the script
    new_img_size,   \* line 132
    model,          \* model.encoder: patch_encoder, image_encoder, out_size
    phases,         \* the functions __main__ has called, in order
    plan,           \* the save_mlpackage calls still to come are plan[k..]
    k,              \* index in plan of the current save_mlpackage call
    G_inputs,       \* line 109
    convert_inputs, \* line 110
    G_trace,        \* line 114
    G_model,        \* line 115
    out,            \* the directory out/: package name -> saved package
    written,        \* the names saved, in the order of the saves
    examples,       \* per finished synthesis: the module and its G_inputs
    failure,        \* what raised, when pc = "failed"
    \* ---- Depth.forward (lines 59-95)
    d_pc, d_in, d_f0, d_x, d_enc_in, d_lowres, d_fov_arg, d_fov_deg, d_f_px,
    d_inv, d_depth, d_err,
    \* ---- DepthProRun.forward (lines 44-51)
    r_pc, r_in, r_x, r_image, r_err

scriptVars == <<pc, new_img_size, model, phases, plan, k, G_inputs,
                convert_inputs, G_trace, G_model, out, written, examples,
                failure>>
depthVars == <<d_pc, d_in, d_f0, d_x, d_enc_in, d_lowres, d_fov_arg,
               d_fov_deg, d_f_px, d_inv, d_depth, d_err>>
runVars == <<r_pc, r_in, r_x, r_image, r_err>>
vars == <<scriptVars, depthVars, runVars>>

\* The value of a variable that holds no tensor, graph, package or exception.
None == [none |-> TRUE]

(***************************************************************************)
(* Bounds of the model.                                                    *)
(***************************************************************************)
MaxBatch == 3
MaxRunBatch == 4

Batches == 1..MaxBatch


(***************************************************************************)
(* The backbone and its adaptation.  A ViT is modelled by what the script  *)
(* reads and rewrites: patch_embed.patch_size, patch_embed.img_size,       *)
(* patch_embed.grid_size, and the log of the adaptations applied to it.    *)
(***************************************************************************)
Pair(n) == <<n, n>>

\* Backbones create_model_and_transforms (line 126) may hand over.
OrigPatchSizes == {14, 16}
OrigImgSizes == {384, 518}

ViT(p, s) == [patch_size |-> Pair(p), img_size |-> Pair(s),
              grid_size |-> Pair(s \div p), log |-> <<>>]

Backbones == {ViT(p, s) : p \in OrigPatchSizes, s \in OrigImgSizes}

\* vit.resize_patch_embed(model, new_patch_size=(16, 16)): resamples the
\* patch-embedding kernel to the new patch size, when it differs.
NewPatchSize == 16

resize_patch_embed(m) ==
    IF m.patch_size # Pair(NewPatchSize)
    THEN [m EXCEPT !.patch_size = Pair(NewPatchSize),
                   !.img_size = <<(m.img_size[1] * NewPatchSize) \div m.patch_size[1],
                                  (m.img_size[2] * NewPatchSize) \div m.patch_size[2]>>,
                   !.log = Append(@, "resize_patch_embed")]
    ELSE [m EXCEPT !.log = Append(@, "resize_patch_embed")]

\* vit.resize_vit(model, img_size): records the new image size and grid and
\* interpolates the positional embedding to the grid.  It checks nothing.
resize_vit(m, img_size) ==
    [m EXCEPT !.img_size = img_size,
              !.grid_size = <<img_size[1] \div m.patch_size[1],
                              img_size[2] \div m.patch_size[2]>>,
              !.log = Append(@, "resize_vit")]

\* Lines 138-140.
encoder_out_size(patch_encoder) ==
    patch_encoder.img_size[1] \div patch_encoder.patch_size[1]

\* Line 132.
NewImgSide == 256

\* Lines 134 and 136: the adaptation's first step, per sub-encoder.
ScaledPatchEmbed(m) == resize_patch_embed(m)

\* Line 135: the second step on patch_encoder.
ScaledPatchEncoder(m, size) == resize_vit(m, size)

\* A slip that forgets line 137.
ScaledImageEncoder_unresized(m, size) == m

\* Line 137: the second step on image_encoder.
ScaledImageEncoder(m, size) == resize_vit(m, size)

(***************************************************************************)
(* save_coreml_packages (lines 182-186): the four save_mlpackage calls.    *)
(***************************************************************************)
Call(G, shapes, name) == [G |-> G, shapes |-> shapes, name |-> name]

\* A slip that exports the decoder before the encoder.
save_coreml_packages_swapped ==
    << Call("transform", << <<1, 3, 1024, 1024>> >>, "DepthPro_transform"),
       Call("decoder",
            << <<1, 256, 512, 512>>, <<1, 256, 256, 256>>, <<1, 512, 128, 128>>,
               <<1, 1024, 64, 64>>, <<1, 1024, 32, 32>> >>, "DepthPro_decoder"),
       Call("encoder", << <<1, 3, 1024, 1024>> >>, "DepthPro_encoder"),
       Call("depth",
            << <<1, 3, 1024, 1024>>, <<1, 256, 512, 512>>, <<1, 256, 32, 32>> >>,
            "DepthPro_depth") >>

save_coreml_packages ==
    << Call("transform", << <<1, 3, 1024, 1024>> >>, "DepthPro_transform"),
       Call("encoder", << <<1, 3, 1024, 1024>> >>, "DepthPro_encoder"),
       Call("decoder",
            << <<1, 256, 512, 512>>, <<1, 256, 256, 256>>, <<1, 512, 128, 128>>,
               <<1, 1024, 64, 64>>, <<1, 1024, 32, 32>> >>, "DepthPro_decoder"),
       Call("depth",
            << <<1, 3, 1024, 1024>>, <<1, 256, 512, 512>>, <<1, 256, 32, 32>> >>,
            "DepthPro_depth") >>

PackageNames == {save_coreml_packages[i].name : i \in 1..Len(save_coreml_packages)}

\* torch.randn (line 112) draws every element afresh from the generator,
\* which the script never seeds: a tensor is its shape and a sample value.
RandnValues == {-1, 1}

Tensor(shape, v) == [shape |-> shape, val |-> v]

\* Line 122.
PackagePath(name) == <<"out/", name, ".mlpackage">>

\* Lines 114 and 117: one example is passed as it is, several as one list.
TraceArgs(inputs) == IF Len(inputs) = 1 THEN inputs ELSE <<inputs>>
ConvertArgs(inputs) == IF Len(inputs) <= 1 THEN inputs ELSE <<inputs>>

Shapes(ts) == [i \in 1..Len(ts) |-> ts[i].shape]

\* torch.jit.trace (line 114) records the operations G performs on the
\* examples: the module and the shapes it was run on.
Trace(G, inputs) ==
    [G |-> G,
     args |-> IF Len(inputs) = 1 THEN Shapes(inputs) ELSE <<Shapes(inputs)>>,
     examples |-> Len(TraceArgs(inputs))]

\* ct.convert (lines 115-121).
Convert(trace, inputs) ==
    [trace |-> trace, inputs |-> ConvertArgs(inputs),
     minimum_deployment_target |-> "macOS15",
     compute_precision |-> "FLOAT16",
     compute_units |-> "CPU_AND_NE"]

\* A slip that wraps every save_mlpackage call in try/except and goes on.
Raised_swallowed(kk) ==
    [pc |-> IF kk + 1 > Len(plan) THEN "done" ELSE "s108", k |-> kk + 1]

\* No try/except anywhere (lines 107-191): an exception raised inside the
\* kk-th save_mlpackage call ends save_coreml_packages and the script.
Raised(kk) == [pc |-> "failed", k |-> kk]


(***************************************************************************)
(* The script: __main__ (lines 188-191).                                   *)
(***************************************************************************)
ScriptIdle ==
    /\ pc = "idle" /\ new_img_size = Pair(NewImgSide)
    /\ model = [patch_encoder |-> ViT(16, 384), image_encoder |-> ViT(16, 384),
                out_size |-> 24]
    /\ phases = <<>> /\ plan = <<>> /\ k = 1
    /\ G_inputs = <<>> /\ convert_inputs = <<>>
    /\ G_trace = None /\ G_model = None
    /\ out = [n \in PackageNames |-> None]
    /\ written = <<>> /\ examples = <<>> /\ failure = None

\* The state create_model_and_transforms (lines 126-129) hands over: in the
\* pretrained encoder out_size is the grid of patch_encoder.
ScriptStart ==
    /\ pc = "main" /\ new_img_size = Pair(NewImgSide)
    /\ \E pe \in Backbones, ie \in Backbones :
          model = [patch_encoder |-> pe, image_encoder |-> ie,
                   out_size |-> encoder_out_size(pe)]
    /\ phases = <<>> /\ plan = save_coreml_packages /\ k = 1
    /\ G_inputs = <<>> /\ convert_inputs = <<>>
    /\ G_trace = None /\ G_model = None
    /\ out = [n \in PackageNames |-> None]
    /\ written = <<>> /\ examples = <<>> /\ failure = None

exportVars == <<plan, k, G_inputs, convert_inputs, G_trace, G_model, out,
                written, examples>>

\* Line 189 and lines 126-129: the call, and the model factory's return.
create_model_and_transforms ==
    /\ pc = "main"
    /\ pc' = "c134"
    /\ phases' = Append(phases, "create_scaled_model")
    /\ UNCHANGED <<new_img_size, model, failure, exportVars>>
    /\ UNCHANGED <<depthVars, runVars>>

\* Lines 126-129 raising (no checkpoint, no memory).
create_model_fails ==
    /\ pc = "main"
    /\ pc' = "failed"
    /\ phases' = Append(phases, "create_scaled_model")
    /\ failure' = [at |-> "create_scaled_model", k |-> 0]
    /\ UNCHANGED <<new_img_size, model, exportVars>>
    /\ UNCHANGED <<depthVars, runVars>>

\* Line 134.
resize_patch_encoder_embed ==
    /\ pc = "c134"
    /\ model' = [model EXCEPT !.patch_encoder = ScaledPatchEmbed(@)]
    /\ pc' = "c135"
    /\ UNCHANGED <<new_img_size, phases, failure, exportVars>>
    /\ UNCHANGED <<depthVars, runVars>>

\* Line 135.
resize_patch_encoder_vit ==
    /\ pc = "c135"
    /\ model' = [model EXCEPT !.patch_encoder = ScaledPatchEncoder(@, new_img_size)]
    /\ pc' = "c136"
    /\ UNCHANGED <<new_img_size, phases, failure, exportVars>>
    /\ UNCHANGED <<depthVars, runVars>>

\* Line 136.
resize_image_encoder_embed ==
    /\ pc = "c136"
    /\ model' = [model EXCEPT !.image_encoder = ScaledPatchEmbed(@)]
    /\ pc' = "c137"
    /\ UNCHANGED <<new_img_size, phases, failure, exportVars>>
    /\ UNCHANGED <<depthVars, runVars>>

\* Line 137.
resize_image_encoder_vit ==
    /\ pc = "c137"
    /\ model' = [model EXCEPT !.image_encoder = ScaledImageEncoder(@, new_img_size)]
    /\ pc' = "c138"
    /\ UNCHANGED <<new_img_size, phases, failure, exportVars>>
    /\ UNCHANGED <<depthVars, runVars>>

\* Lines 138-140.
set_out_size ==
    /\ pc = "c138"
    /\ model' = [model EXCEPT !.out_size = encoder_out_size(model.patch_encoder)]
    /\ pc' = "c149"
    /\ UNCHANGED <<new_img_size, phases, failure, exportVars>>
    /\ UNCHANGED <<depthVars, runVars>>

\* Lines 149-163: transform and depth are built and the three are returned.
create_scaled_model_returns ==
    /\ pc = "c149"
    /\ pc' = "l190"
    /\ UNCHANGED <<new_img_size, model, phases, failure, exportVars>>
    /\ UNCHANGED <<depthVars, runVars>>

\* Lines 134-163 raising: the script ends inside create_scaled_model.
create_scaled_model_fails ==
    /\ pc \in {"c134", "c135", "c136", "c137", "c138", "c149"}
    /\ pc' = "failed"
    /\ failure' = [at |-> "create_scaled_model", k |-> 0]
    /\ UNCHANGED <<new_img_size, model, phases, exportVars>>
    /\ UNCHANGED <<depthVars, runVars>>

\* Line 190, lines 165-179: the example is loaded and run through the
\* pipeline, and the figure is drawn.
load_and_show_example ==
    /\ pc = "l190"
    /\ phases' = Append(phases, "load_and_show_example")
    /\ pc' = "l180"
    /\ UNCHANGED <<new_img_size, model, failure, exportVars>>
    /\ UNCHANGED <<depthVars, runVars>>

\* Line 180: plt.show(block=True) returns when the window is closed; the
\* script registers no callback, so nothing changes while it waits.
preview_closed ==
    /\ pc = "l180"
    /\ pc' = "l191"
    /\ UNCHANGED <<new_img_size, model, phases, failure, exportVars>>
    /\ UNCHANGED <<depthVars, runVars>>

\* Line 180 raising while the preview is open (the window's event loop
\* raises, the run is interrupted): the script ends before line 191.
preview_fails ==
    /\ pc = "l180"
    /\ pc' = "failed"
    /\ failure' = [at |-> "load_and_show_example", k |-> 0]
    /\ UNCHANGED <<new_img_size, model, phases, exportVars>>
    /\ UNCHANGED <<depthVars, runVars>>

\* Lines 166-179 raising (no data/example.jpg, a shape error in the run).
load_and_show_example_fails ==
    /\ pc = "l190"
    /\ phases' = Append(phases, "load_and_show_example")
    /\ pc' = "failed"
    /\ failure' = [at |-> "load_and_show_example", k |-> 0]
    /\ UNCHANGED <<new_img_size, model, exportVars>>
    /\ UNCHANGED <<depthVars, runVars>>

\* Line 191: save_coreml_packages is called.
call_save_coreml_packages ==
    /\ pc = "l191"
    /\ phases' = Append(phases, "save_coreml_packages")
    /\ pc' = "s108"
    /\ UNCHANGED <<new_img_size, model, failure, exportVars>>
    /\ UNCHANGED <<depthVars, runVars>>

(***************************************************************************)
(* save_mlpackage (lines 107-122), called with plan[k].                    *)
(***************************************************************************)
\* Lines 108-110.
save_mlpackage_begin ==
    /\ pc = "s108" /\ k <= Len(plan)
    /\ G_inputs' = <<>> /\ convert_inputs' = <<>>
    /\ G_trace' = None /\ G_model' = None
    /\ pc' = "s111"
    /\ UNCHANGED <<new_img_size, model, phases, failure, plan, k, out, written,
                   examples>>
    /\ UNCHANGED <<depthVars, runVars>>

\* Lines 111-113: one iteration of the loop over shapes.
synthesize_example ==
    /\ pc = "s111" /\ Len(G_inputs) < Len(plan[k].shapes)
    /\ LET shape == plan[k].shapes[Len(G_inputs) + 1] IN
         /\ \E v \in RandnValues : G_inputs' = Append(G_inputs, Tensor(shape, v))
         /\ convert_inputs' = Append(convert_inputs,
                                     [shape |-> shape, dtype |-> "float16"])
    /\ UNCHANGED <<pc, new_img_size, model, phases, failure, plan, k, G_trace,
                   G_model, out, written, examples>>
    /\ UNCHANGED <<depthVars, runVars>>

\* Line 111: the loop ends.
synthesize_done ==
    /\ pc = "s111" /\ Len(G_inputs) = Len(plan[k].shapes)
    /\ examples' = Append(examples, [call |-> plan[k], inputs |-> G_inputs])
    /\ pc' = "s114"
    /\ UNCHANGED <<new_img_size, model, phases, failure, plan, k, G_inputs,
                   convert_inputs, G_trace, G_model, out, written>>
    /\ UNCHANGED <<depthVars, runVars>>

\* Lines 108-113 raising: the script ends before anything is traced.
synthesize_fails ==
    /\ pc \in {"s108", "s111"} /\ k <= Len(plan)
    /\ pc' = Raised(k).pc /\ k' = Raised(k).k
    /\ failure' = [at |-> "synthesize", k |-> k]
    /\ UNCHANGED <<new_img_size, model, phases, plan, G_inputs, convert_inputs,
                   G_trace, G_model, out, written, examples>>
    /\ UNCHANGED <<depthVars, runVars>>

\* Line 114.
trace ==
    /\ pc = "s114"
    /\ G_trace' = Trace(plan[k].G, G_inputs)
    /\ pc' = "s115"
    /\ UNCHANGED <<new_img_size, model, phases, failure, plan, k, G_inputs,
                   convert_inputs, G_model, out, written, examples>>
    /\ UNCHANGED <<depthVars, runVars>>

\* Line 114 raising: G cannot run on the examples.
trace_fails ==
    /\ pc = "s114"
    /\ pc' = Raised(k).pc /\ k' = Raised(k).k
    /\ failure' = [at |-> "trace", k |-> k]
    /\ UNCHANGED <<new_img_size, model, phases, plan, G_inputs, convert_inputs,
                   G_trace, G_model, out, written, examples>>
    /\ UNCHANGED <<depthVars, runVars>>

\* Lines 115-121.
convert ==
    /\ pc = "s115"
    /\ G_model' = Convert(G_trace, convert_inputs)
    /\ pc' = "s122"
    /\ UNCHANGED <<new_img_size, model, phases, failure, plan, k, G_inputs,
                   convert_inputs, G_trace, out, written, examples>>
    /\ UNCHANGED <<depthVars, runVars>>

\* Lines 115-121 raising: the graph cannot be converted.
convert_fails ==
    /\ pc = "s115"
    /\ pc' = Raised(k).pc /\ k' = Raised(k).k
    /\ failure' = [at |-> "convert", k |-> k]
    /\ UNCHANGED <<new_img_size, model, phases, plan, G_inputs, convert_inputs,
                   G_trace, G_model, out, written, examples>>
    /\ UNCHANGED <<depthVars, runVars>>

\* Line 122, and the return to save_coreml_packages (or to __main__).
save ==
    /\ pc = "s122"
    /\ out' = [out EXCEPT ![plan[k].name] =
                  [path |-> PackagePath(plan[k].name), model |-> G_model]]
    /\ written' = Append(written, plan[k].name)
    /\ k' = k + 1
    /\ pc' = IF k + 1 > Len(plan) THEN "done" ELSE "s108"
    /\ UNCHANGED <<new_img_size, model, phases, failure, plan, G_inputs,
                   convert_inputs, G_trace, G_model, examples>>
    /\ UNCHANGED <<depthVars, runVars>>

\* Line 122 raising: the package cannot be written.
save_fails ==
    /\ pc = "s122"
    /\ pc' = Raised(k).pc /\ k' = Raised(k).k
    /\ failure' = [at |-> "save", k |-> k]
    /\ UNCHANGED <<new_img_size, model, phases, plan, G_inputs, convert_inputs,
                   G_trace, G_model, out, written, examples>>
    /\ UNCHANGED <<depthVars, runVars>>


(***************************************************************************)
(* Depth.forward (lines 59-95).  A tensor is its shape and the operations  *)
(* that produced it; the values that matter (fov_deg, f_px, the inverse    *)
(* depth and the depth at one pixel) are fixed-point numbers, Unit to 1.0. *)
(***************************************************************************)
Unit == 2 * 10000

RECURSIVE Numel(_)
Numel(shape) == IF shape = <<>> THEN 1 ELSE Head(shape) * Numel(Tail(shape))

T4(shape) == [shape |-> shape, ops |-> <<>>]

\* F.interpolate(t, size=size, mode="bilinear", align_corners=False).
interpolate_to(t, size) ==
    [shape |-> <<t.shape[1], t.shape[2], size[1], size[2]>>,
     ops |-> Append(t.ops, "interpolate")]

\* Lines 66 and 68: the canonical grid.
CanonSide == 48

\* A slip that resizes only when both sides differ.
canonicalize_both(features_0) ==
    IF features_0.shape[3] # CanonSide /\ features_0.shape[4] # CanonSide
    THEN interpolate_to(features_0, Pair(CanonSide))
    ELSE features_0

\* Lines 64-71.
canonicalize(features_0) ==
    IF features_0.shape[3] # CanonSide \/ features_0.shape[4] # CanonSide
    THEN interpolate_to(features_0, Pair(CanonSide))
    ELSE features_0

\* Line 80: scale_factor = 0.375 = ScaleNum / ScaleDen.
ScaleNum == 3
ScaleDen == 8

\* Lines 76-83: F.interpolate(x, size=None, scale_factor=0.375, ...): each
\* output side is floor(side * scale_factor).
downsample_image(x) ==
    [shape |-> <<x.shape[1], x.shape[2],
                 (x.shape[3] * ScaleNum) \div ScaleDen,
                 (x.shape[4] * ScaleNum) \div ScaleDen>>,
     ops |-> Append(x.ops, "interpolate")]

\* Line 84: [:, 1:] drops the leading token, permute(0, 2, 1) swaps the
\* last two axes of the (N, tokens, C) output of fov.encoder.
drop_and_permute(tokens) == <<tokens[1], tokens[3], tokens[2] - 1>>

\* Line 86: x.reshape_as(lowres_feature) succeeds exactly when both hold the
\* same number of elements, and gives lowres_feature's shape.
reshape_as_ok(shape, other) == Numel(shape) = Numel(other)

\* Broadcasting of two shapes of one length (lines 86 and 93).
broadcast_ok(a, b) ==
    /\ Len(a) = Len(b)
    /\ \A i \in 1..Len(a) : a[i] = b[i] \/ a[i] = 1 \/ b[i] = 1

broadcast(a, b) == [i \in 1..Len(a) |-> IF a[i] = 1 THEN b[i] ELSE a[i]]

\* Line 90 at the angles the model draws (hundredths of a degree):
\* f_px = 0.5 * tan(pi * fov_deg / 360), in Units.
FovDegrees == {-9000, 0, 5313, 9000, 12687}

f_px_of(fov_deg) ==
    CASE fov_deg = 0 -> 0
      [] fov_deg = 5313 -> Unit \div 4
      [] fov_deg = 9000 -> Unit \div 2
      [] fov_deg = -9000 -> -(Unit \div 2)
      [] fov_deg = 12687 -> Unit

\* The product of two fixed-point numbers, rounded down; a is not negative.
MulUnits(a, f) == (a \div Unit) * f + ((a % Unit) * f) \div Unit

\* Line 94: the clamp bounds 1e-4 and 1e4.
ClampMin == Unit \div 10000
ClampMax == Unit * 10000

\* A slip that clamps from below only: clamp(min=1e-4).
clamp_min_only(v) == IF v < ClampMin THEN ClampMin ELSE v

\* Line 94: inverse_depth.clamp(min=1e-4, max=1e4).
clamp(v) == IF v < ClampMin THEN ClampMin ELSE IF v > ClampMax THEN ClampMax ELSE v

\* Line 94: 1.0 / v, in Units, rounded down.
reciprocal(v) == (Unit * Unit) \div v

\* What the opaque collaborators may return.
ImageSides == {512, 1024, 1536}
CoarseSides == {32, 48, 96}
EncoderGrids == {<<24, 24>>, <<12, 48>>, <<12, 24>>}
EncoderChannels == {128, 256}
LowresGrids == {<<24, 24>>, <<48, 12>>}
LowresChannels == {128}
CanonicalValues == {0, 1, ClampMin, Unit, ClampMax, 5 * Unit * 10000, 10 * Unit * 10000}

DepthIdle ==
    /\ d_pc = "idle"
    /\ d_in = None /\ d_f0 = None /\ d_x = None /\ d_enc_in = None
    /\ d_lowres = None /\ d_fov_arg = None /\ d_fov_deg = 0 /\ d_f_px = 0
    /\ d_inv = 0 /\ d_depth = None /\ d_err = "none"

DepthStart ==
    /\ d_pc = "l60"
    /\ \E has \in BOOLEAN, nx \in Batches, nf \in Batches, n0 \in Batches,
          s \in ImageSides, hc \in CoarseSides, wc \in CoarseSides :
          d_in = [fov_has_encoder |-> has,
                  x |-> T4(<<nx, 3, s, s>>),
                  features |-> T4(<<nf, 256, s \div 2, s \div 2>>),
                  features_0 |-> T4(<<n0, 256, hc, wc>>)]
    /\ d_f0 = None /\ d_x = None /\ d_enc_in = None
    /\ d_lowres = None /\ d_fov_arg = None /\ d_fov_deg = 0 /\ d_f_px = 0
    /\ d_inv = 0 /\ d_depth = None /\ d_err = "none"

\* Lines 60-71.
canonicalize_features_0 ==
    /\ d_pc = "l60"
    /\ d_x' = d_in.x
    /\ d_f0' = canonicalize(d_in.features_0)
    /\ d_pc' = "l75"
    /\ UNCHANGED <<d_in, d_enc_in, d_lowres, d_fov_arg, d_fov_deg, d_f_px,
                   d_inv, d_depth, d_err>>
    /\ UNCHANGED <<scriptVars, runVars>>

\* Lines 75-83: the auxiliary-encoder variant downsamples the image.
fov_downsample_image ==
    /\ d_pc = "l75" /\ d_in.fov_has_encoder
    /\ d_x' = downsample_image(d_x)
    /\ d_pc' = "l84"
    /\ UNCHANGED <<d_in, d_f0, d_enc_in, d_lowres, d_fov_arg, d_fov_deg,
                   d_f_px, d_inv, d_depth, d_err>>
    /\ UNCHANGED <<scriptVars, runVars>>

\* Line 84: fov.encoder runs on the downsampled image and returns
\* (N, 1 + h*w, C) tokens.
fov_encoder ==
    /\ d_pc = "l84"
    /\ d_enc_in' = d_x
    /\ \E g \in EncoderGrids, c \in EncoderChannels :
          d_x' = [shape |-> drop_and_permute(<<d_x.shape[1], 1 + g[1] * g[2], c>>),
                  grid |-> g, ops |-> <<"fov.encoder", "drop", "permute">>]
    /\ d_pc' = "l85"
    /\ UNCHANGED <<d_in, d_f0, d_lowres, d_fov_arg, d_fov_deg, d_f_px, d_inv,
                   d_depth, d_err>>
    /\ UNCHANGED <<scriptVars, runVars>>

\* Line 85: fov.downsample runs on the canonical coarse map.
fov_downsample ==
    /\ d_pc = "l85"
    /\ d_fov_arg' = d_f0
    /\ \E g \in LowresGrids, c \in LowresChannels :
          d_lowres' = [shape |-> <<d_f0.shape[1], c, g[1], g[2]>>,
                       ops |-> Append(d_f0.ops, "fov.downsample")]
    /\ d_pc' = "l86"
    /\ UNCHANGED <<d_in, d_f0, d_x, d_enc_in, d_fov_deg, d_f_px, d_inv,
                   d_depth, d_err>>
    /\ UNCHANGED <<scriptVars, runVars>>

\* Line 86: the fusion.
fov_fuse ==
    /\ d_pc = "l86"
    /\ reshape_as_ok(d_x.shape, d_lowres.shape)
    /\ d_x' = [shape |-> d_lowres.shape,
               grid |-> d_x.grid,
               ops |-> <<"reshape_as", "add">>]
    /\ d_pc' = "l89"
    /\ UNCHANGED <<d_in, d_f0, d_enc_in, d_lowres, d_fov_arg, d_fov_deg,
                   d_f_px, d_inv, d_depth, d_err>>
    /\ UNCHANGED <<scriptVars, runVars>>

\* Line 86 raising: reshape_as of a different number of elements.
fov_fuse_fails ==
    /\ d_pc = "l86"
    /\ ~reshape_as_ok(d_x.shape, d_lowres.shape)
    /\ d_err' = "reshape_as"
    /\ d_pc' = "error"
    /\ UNCHANGED <<d_in, d_f0, d_x, d_enc_in, d_lowres, d_fov_arg, d_fov_deg,
                   d_f_px, d_inv, d_depth>>
    /\ UNCHANGED <<scriptVars, runVars>>

\* Lines 87-88: the variant without an auxiliary encoder.
fov_without_encoder ==
    /\ d_pc = "l75" /\ ~d_in.fov_has_encoder
    /\ d_x' = d_f0
    /\ d_fov_arg' = d_f0
    /\ d_pc' = "l89"
    /\ UNCHANGED <<d_in, d_f0, d_enc_in, d_lowres, d_fov_deg, d_f_px, d_inv,
                   d_depth, d_err>>
    /\ UNCHANGED <<scriptVars, runVars>>

\* Lines 89-90: fov.head returns one angle per batch element of its input.
fov_head ==
    /\ d_pc = "l89"
    /\ \E deg \in FovDegrees :
          /\ d_fov_deg' = deg
          /\ d_f_px' = f_px_of(deg)
    /\ d_pc' = "l92"
    /\ UNCHANGED <<d_in, d_f0, d_x, d_enc_in, d_lowres, d_fov_arg, d_inv,
                   d_depth, d_err>>
    /\ UNCHANGED <<scriptVars, runVars>>

\* The shapes line 93 multiplies: head(features) is (N, 1, H, W), f_px is
\* (N', 1, 1, 1) with N' the batch size of the head's input.
canonical_shape == <<d_in.features.shape[1], 1, d_in.features.shape[3],
                     d_in.features.shape[4]>>
f_px_shape == <<d_x.shape[1], 1, 1, 1>>

\* Lines 92-95.
metric_depth ==
    /\ d_pc = "l92"
    /\ broadcast_ok(canonical_shape, f_px_shape)
    /\ \E c \in CanonicalValues :
          /\ d_inv' = MulUnits(c, d_f_px)
          /\ d_depth' = [shape |-> broadcast(canonical_shape, f_px_shape),
                         val |-> reciprocal(clamp(MulUnits(c, d_f_px)))]
    /\ d_pc' = "done"
    /\ UNCHANGED <<d_in, d_f0, d_x, d_enc_in, d_lowres, d_fov_arg, d_fov_deg,
                   d_f_px, d_err>>
    /\ UNCHANGED <<scriptVars, runVars>>

\* Line 93 raising: the batch sizes cannot be broadcast.
metric_depth_fails ==
    /\ d_pc = "l92"
    /\ ~broadcast_ok(canonical_shape, f_px_shape)
    /\ d_err' = "broadcast"
    /\ d_pc' = "error"
    /\ UNCHANGED <<d_in, d_f0, d_x, d_enc_in, d_lowres, d_fov_arg, d_fov_deg,
                   d_f_px, d_inv, d_depth>>
    /\ UNCHANGED <<scriptVars, runVars>>


(***************************************************************************)
(* DepthProRun.forward (lines 44-51) with the script's transform           *)
(* (lines 149-160, Interpolate at lines 97-105).                           *)
(***************************************************************************)
\* model.img_size of the scaled model: the side of the examples at
\* lines 183-186.
ImgSize == 1024

\* Lines 45-46: x.unsqueeze(0) when the first axis is 3.
promote(shape) == IF shape[1] = 3 THEN <<1>> \o shape ELSE shape

\* Lines 153-158: Normalize works on any (..., 3, H, W); F.interpolate with a
\* two-element size and mode "bilinear" takes 4-dimensional input only.
transform_ok(shape) == Len(shape) = 4

transform(shape) == <<shape[1], shape[2], ImgSize, ImgSize>>

RunSides == {480, 640, 1024}

RunInputs ==
    {<<3, h, w>> : h \in RunSides, w \in RunSides}
    \cup {<<n, 3, h, w>> : n \in 1..MaxRunBatch, h \in RunSides, w \in RunSides}

RunIdle == r_pc = "idle" /\ r_in = <<>> /\ r_x = <<>> /\ r_image = <<>> /\ r_err = "none"

RunStart ==
    /\ r_pc = "l45" /\ r_in \in RunInputs /\ r_x = r_in /\ r_image = <<>>
    /\ r_err = "none"

\* Lines 45-46.
promote_batch ==
    /\ r_pc = "l45"
    /\ r_x' = promote(r_x)
    /\ r_pc' = "l47"
    /\ UNCHANGED <<r_in, r_image, r_err>>
    /\ UNCHANGED <<scriptVars, depthVars>>

\* Line 47.
run_transform ==
    /\ r_pc = "l47" /\ transform_ok(r_x)
    /\ r_image' = transform(r_x)
    /\ r_pc' = "l48"
    /\ UNCHANGED <<r_in, r_x, r_err>>
    /\ UNCHANGED <<scriptVars, depthVars>>

\* Line 47 raising: the input handed to the transform is not a 4-d batch.
run_transform_fails ==
    /\ r_pc = "l47" /\ ~transform_ok(r_x)
    /\ r_err' = "interpolate"
    /\ r_pc' = "error"
    /\ UNCHANGED <<r_in, r_x, r_image>>
    /\ UNCHANGED <<scriptVars, depthVars>>

\* Lines 48-51: encoder, decoder and depth run on the image.
run_rest ==
    /\ r_pc = "l48"
    /\ r_pc' = "done"
    /\ UNCHANGED <<r_in, r_x, r_image, r_err>>
    /\ UNCHANGED <<scriptVars, depthVars>>

(***************************************************************************)
(* The specifications.                                                     *)
(***************************************************************************)
ScriptNext ==
    \/ create_model_and_transforms
    \/ create_model_fails
    \/ resize_patch_encoder_embed
    \/ resize_patch_encoder_vit
    \/ resize_image_encoder_embed
    \/ resize_image_encoder_vit
    \/ set_out_size
    \/ create_scaled_model_returns
    \/ create_scaled_model_fails
    \/ load_and_show_example
    \/ preview_closed
    \/ preview_fails
    \/ load_and_show_example_fails
    \/ call_save_coreml_packages
    \/ save_mlpackage_begin
    \/ synthesize_example
    \/ synthesize_done
    \/ synthesize_fails
    \/ trace
    \/ trace_fails
    \/ convert
    \/ convert_fails
    \/ save
    \/ save_fails

\* One invocation of the script.
Init == ScriptStart /\ DepthIdle /\ RunIdle
Next == ScriptNext
Spec == Init /\ [][Next]_vars

\* save_mlpackage called twice with one module and one list of shapes; a call
\* that raises ends the run, as nothing catches the exception.
SaveStart ==
    /\ pc = "s108" /\ new_img_size = Pair(NewImgSide)
    /\ model = [patch_encoder |-> resize_vit(resize_patch_embed(ViT(16, 384)), Pair(NewImgSide)),
                image_encoder |-> resize_vit(resize_patch_embed(ViT(16, 384)), Pair(NewImgSide)),
                out_size |-> 16]
    /\ phases = <<>>
    /\ \E i \in 1..Len(save_coreml_packages) :
          plan = <<save_coreml_packages[i], save_coreml_packages[i]>>
    /\ k = 1
    /\ G_inputs = <<>> /\ convert_inputs = <<>>
    /\ G_trace = None /\ G_model = None
    /\ out = [n \in PackageNames |-> None]
    /\ written = <<>> /\ examples = <<>> /\ failure = None

SaveNext ==
    \/ save_mlpackage_begin
    \/ synthesize_example
    \/ synthesize_done
    \/ synthesize_fails
    \/ trace
    \/ trace_fails
    \/ convert
    \/ convert_fails
    \/ save
    \/ save_fails

InitSave == SaveStart /\ DepthIdle /\ RunIdle
NextSave == SaveNext
SpecSave == InitSave /\ [][NextSave]_vars

\* Depth.forward on drawn inputs.
DepthNext ==
    \/ canonicalize_features_0
    \/ fov_downsample_image
    \/ fov_encoder
    \/ fov_downsample
    \/ fov_fuse
    \/ fov_fuse_fails
    \/ fov_without_encoder
    \/ fov_head
    \/ metric_depth
    \/ metric_depth_fails

InitDepth == ScriptIdle /\ DepthStart /\ RunIdle
NextDepth == DepthNext
SpecDepth == InitDepth /\ [][NextDepth]_vars

\* DepthProRun.forward on drawn inputs.
RunNext ==
    \/ promote_batch
    \/ run_transform
    \/ run_transform_fails
    \/ run_rest

InitRun == ScriptIdle /\ DepthIdle /\ RunStart
NextRun == RunNext
SpecRun == InitRun /\ [][NextRun]_vars


(***************************************************************************)
(* The claims.                                                             *)
(***************************************************************************)
IsPrefix(a, b) == Len(a) <= Len(b) /\ \A i \in 1..Len(a) : a[i] = b[i]

\* C1 (SpecDepth): whatever the product canonical_inverse_depth * f_px is
\* (zero, negative, below 1e-4, above 1e4), the depth Depth.forward returns
\* lies in [1e-4, 1e4]; a product above 1e4 gives 1e-4, a product at or
\* below 1e-4 gives 1e4, and the divisor is never zero.
C1_DepthClamped ==
    d_pc = "done" =>
        /\ d_depth.val >= Unit \div 10000
        /\ d_depth.val <= Unit * 10000
        /\ d_inv > Unit * 10000 => d_depth.val = Unit \div 10000
        /\ d_inv <= Unit \div 10000 => d_depth.val = Unit * 10000
        /\ clamp(d_inv) # 0

\* Scenario C: a canonical inverse depth of 1e5 and f_px = 1.0 give 1e-4.
C1_Witness ==
    /\ d_pc = "done"
    /\ d_f_px = Unit
    /\ d_inv = 10 * Unit * 10000
    /\ d_depth.val = Unit \div 10000

\* C2 (Spec): the script calls create_scaled_model, load_and_show_example
\* and save_coreml_packages in this order; the packages are saved in the
\* order transform, encoder, decoder, depth, each once under
\* out/<name>.mlpackage, none before the preview has returned, and a run
\* that ends normally has saved all four.
C2_PhasesAndPackagesInOrder ==
    LET order == <<"DepthPro_transform", "DepthPro_encoder", "DepthPro_decoder",
                   "DepthPro_depth">>
        calls == <<"create_scaled_model", "load_and_show_example",
                   "save_coreml_packages">>
    IN  /\ IsPrefix(phases, calls)
        /\ IsPrefix(written, order)
        /\ written # <<>> => phases = calls
        /\ pc \in {"l190", "l180", "l191"} => written = <<>>
        /\ pc = "done" => written = order /\ phases = calls
        /\ \A i \in 1..Len(order) :
              IF i <= Len(written)
              THEN out[order[i]] # None
                   /\ out[order[i]].path = <<"out/", order[i], ".mlpackage">>
                   /\ out[order[i]].model.trace.G
                        = <<"transform", "encoder", "decoder", "depth">>[i]
              ELSE out[order[i]] = None

C2_Witness == pc = "done" /\ Len(written) = 4 /\ Len(phases) = 3

\* C3 (Spec): when tracing or conversion raises for the k-th module, the
\* packages of modules 1..k-1 are the ones saved and are never touched
\* again, nothing is saved for module k or a later one, and nothing is
\* traced, converted or saved after the failure.
C3_AbortOnFailure ==
    /\ [](pc = "failed" /\ failure.at \in {"trace", "convert"} =>
            /\ Len(written) = failure.k - 1
            /\ \A i \in 1..Len(save_coreml_packages) :
                  (out[save_coreml_packages[i].name] # None) <=> (i < failure.k))
    /\ [][failure # None =>
            /\ pc = "failed" /\ pc' = "failed"
            /\ out' = out /\ written' = written
            /\ G_trace' = G_trace /\ G_model' = G_model /\ k' = k]_vars

C3_Witness ==
    /\ pc = "failed" /\ failure.at = "convert" /\ failure.k = 3
    /\ written = <<"DepthPro_transform", "DepthPro_encoder">>
    /\ out["DepthPro_decoder"] = None

\* C5 (SpecRun): DepthProRun.forward hands the transform a 4-d batch: an
\* unbatched (3,H,W) image becomes (1,3,H,W), and a batched (N,3,H,W) input
\* keeps its shape for every N >= 1, N = 3 included.
C5_FourDimBatch ==
    r_pc \in {"l47", "l48", "done", "error"} =>
        /\ Len(r_x) = 4
        /\ Len(r_in) = 3 => r_x = <<1>> \o r_in
        /\ Len(r_in) = 4 => r_x = r_in

\* C6 (SpecDepth): the coarse map that reaches fov.downsample or fov.head
\* is 48x48 whatever the size of F0; F0 is resized exactly when one of its
\* sides is not 48, an F0 that is 48x48 is passed on as it is, and
\* canonicalizing the canonical map changes nothing.
C6_CanonicalGrid ==
    /\ d_pc \notin {"idle", "l60"} =>
          /\ d_f0.shape[3] = 48 /\ d_f0.shape[4] = 48
          /\ (d_f0.ops = <<"interpolate">>)
                <=> (d_in.features_0.shape[3] # 48 \/ d_in.features_0.shape[4] # 48)
          /\ (d_in.features_0.shape[3] = 48 /\ d_in.features_0.shape[4] = 48)
                => d_f0 = d_in.features_0
          /\ canonicalize(d_f0) = d_f0
    /\ d_fov_arg # None =>
          /\ d_fov_arg.shape[3] = 48 /\ d_fov_arg.shape[4] = 48
          /\ d_fov_arg.shape[1] = d_in.features_0.shape[1]
          /\ d_fov_arg.shape[2] = d_in.features_0.shape[2]

C6_Witness ==
    /\ d_fov_arg # None
    /\ d_in.features_0.shape[3] = 48 /\ d_in.features_0.shape[4] = 96
    /\ d_fov_arg.shape[3] = 48 /\ d_fov_arg.shape[4] = 48

\* C7 (Spec): once create_scaled_model has run, patch_encoder and
\* image_encoder have both gone through resize_patch_embed and then
\* resize_vit to the size of line 132, each has its own grid, and out_size
\* is img_size // patch_size of each of them.
C7_EverySubEncoderAdapted ==
    (/\ phases # <<>>
     /\ pc \notin {"c134", "c135", "c136", "c137", "c138"}
     /\ ~(pc = "failed" /\ failure.at = "create_scaled_model")) =>
        \A e \in {model.patch_encoder, model.image_encoder} :
            /\ e.log = <<"resize_patch_embed", "resize_vit">>
            /\ e.img_size = <<256, 256>>
            /\ e.grid_size = <<e.img_size[1] \div e.patch_size[1],
                               e.img_size[2] \div e.patch_size[2]>>
            /\ model.out_size = e.img_size[1] \div e.patch_size[1]

C7_Witness ==
    /\ pc = "c149"
    /\ model.image_encoder.log = <<"resize_patch_embed", "resize_vit">>
    /\ model.patch_encoder.log = <<"resize_patch_embed", "resize_vit">>
    /\ model.image_encoder.grid_size = <<16, 16>>
    /\ model.out_size = 16

\* C8 (SpecSave): two save_mlpackage calls with the same module and the
\* same shapes trace the module on identical example tensors.
C8_SameExamples ==
    \A i \in 1..Len(examples), j \in 1..Len(examples) :
        examples[i].call = examples[j].call
            => examples[i].inputs = examples[j].inputs

\* C9 (SpecDepth): the image handed to fov.encoder has side 384 whatever
\* the side of X.
C9_FixedAuxiliarySide ==
    d_enc_in # None => d_enc_in.shape[3] = 384 /\ d_enc_in.shape[4] = 384

\* C10 (SpecDepth): Depth.forward returns a depth map only when the batch
\* sizes of X, F and F0 agree and, in the auxiliary-encoder variant, the
\* token map and the downsampled coarse map have the same spatial size.
C10_MismatchRejected ==
    d_pc = "done" =>
        /\ d_in.x.shape[1] = d_in.features.shape[1]
        /\ d_in.features.shape[1] = d_in.features_0.shape[1]
        /\ d_in.fov_has_encoder =>
              d_x.grid = <<d_lowres.shape[3], d_lowres.shape[4]>>

============================================================================
